---- MODULE Spec2Model ----
(***************************************************************************)
(* State-machine model of the GRU/LSTM energy-forecasting notebook         *)
(* (src/.ipynb_checkpoints/main-checkpoint.ipynb): the preprocessing cell  *)
(* (scaling, windowing, train/test split), the DataLoader cell, train,     *)
(* evaluate and the four top-level train/evaluate cells.                   *)
(*                                                                         *)
(* Floating-point values are modelled as exact extended rationals          *)
(* <<n, d>> with d >= 0: d = 0 encodes the IEEE specials (<<1,0>> = +inf,  *)
(* <<-1,0>> = -inf, <<0,0>> = nan).  Rounding error is not modelled.       *)
(* The numeric results of the library's recurrent layers and optimizer are *)
(* not modelled: a forward pass yields fresh symbolic hidden values and a   *)
(* prediction drawn from a small family of predictors.                     *)
(***************************************************************************)
EXTENDS Integers, Sequences, FiniteSets, TLC

VARIABLES
    \* the run's inputs (fixed after Init)
    cfg,            \* [lookback, batch_size, EPOCHS]: the values the cells assign
    listing,        \* os.listdir(data_dir)
    csv,            \* file name -> rows [Datetime, MW] as stored in the file
    \* the notebook's control state
    pc,             \* position in the running cell / function
    cell,           \* the cell being run
    bound,          \* global names that are bound in the kernel and may be unbound
    exc,            \* the last exception raised ("none" when none)
    \* preprocessing cell
    ii, file, data, inputs, labels, i, lookback, label_scalers,
    train_x, train_y, test_x, test_y, test_keys,
    \* DataLoader cell
    batch_size, train_loader,
    \* train
    hidden_dim, model_type, EPOCHS, model, epoch, counter, h, batches_left,
    stats, printed, fwd, ret, n_models,
    \* top-level results
    gru_model, lstm_model,
    \* evaluate
    ev_model, ev_k, outputs, targets, sMAPE, sm_i, ev_log, ev_ret

inputVars == <<cfg, listing, csv>>
ctlVars   == <<pc, cell, bound, exc>>
prepVars  == <<ii, file, data, inputs, labels, i, lookback, label_scalers,
               train_x, train_y, test_x, test_y, test_keys>>
loadVars  == <<batch_size, train_loader>>
trainVars == <<hidden_dim, model_type, EPOCHS, model, epoch, counter, h,
               batches_left, stats, printed, fwd, ret, n_models>>
topVars   == <<gru_model, lstm_model>>
evalVars  == <<ev_model, ev_k, outputs, targets, sMAPE, sm_i, ev_log, ev_ret>>
vars      == <<inputVars, ctlVars, prepVars, loadVars, trainVars, topVars, evalVars>>

----------------------------------------------------------------------------
(* Bounds of the model *)

MaxRows      == 12   \* rows per csv file: 0..MaxRows
MaxLookback  == 2    \* lookback lengths: 1..MaxLookback
MaxBatch     == 2    \* batch sizes: 1..MaxBatch
MaxEpochs    == 2    \* EPOCHS arguments of train taken alone: 0..MaxEpochs
MaxHidden    == 1    \* hidden widths a kernel may hold: 1..MaxHidden
MaxSeed      == 0    \* consumption patterns: 0..MaxSeed
MaxMetricLen == 2    \* windows per file when sMAPE is taken alone

----------------------------------------------------------------------------
(* Floating point as extended rationals *)

Abs(x) == IF x < 0 THEN -x ELSE x

Sgn(x) == IF x < 0 THEN -1 ELSE IF x = 0 THEN 0 ELSE 1

SgnNZ(x) == IF x < 0 THEN -1 ELSE 1

RECURSIVE Gcd(_, _)
Gcd(a, b) == IF b = 0 THEN a ELSE Gcd(b, a % b)

\* normal form of n/d for d >= 0
FNorm(n, d) ==
    IF d = 0 THEN <<Sgn(n), 0>>
    ELSE LET g == Gcd(Abs(n), d) IN <<n \div g, d \div g>>

F(n) == <<n, 1>>

NaN == <<0, 0>>

IsFinite(a) == a[2] # 0

FNeg(a) == <<0 - a[1], a[2]>>

FAbs(a) == <<Abs(a[1]), a[2]>>

FAdd(a, b) ==
    IF a[2] = 0 /\ b[2] = 0 THEN (IF a = b THEN a ELSE NaN)
    ELSE IF a[2] = 0 THEN a
    ELSE IF b[2] = 0 THEN b
    ELSE LET d == (a[2] \div Gcd(a[2], b[2])) * b[2]
         IN  FNorm(a[1] * (d \div a[2]) + b[1] * (d \div b[2]), d)

FSub(a, b) == FAdd(a, FNeg(b))

FMul(a, b) == FNorm(a[1] * b[1], a[2] * b[2])

\* IEEE division: x/0 is +-inf for x # 0 and nan for x = 0, no exception
FDiv(a, b) == FNorm(a[1] * b[2] * SgnNZ(b[1]), a[2] * Abs(b[1]))

RECURSIVE FSum(_)
FSum(s) == IF s = <<>> THEN F(0) ELSE FAdd(s[1], FSum(Tail(s)))

\* numpy.mean of a one-dimensional array (nan for an empty array)
NpMean(s) == FDiv(FSum(s), F(Len(s)))

----------------------------------------------------------------------------
(* Python slices and dicts *)

\* seq[:-p] (note that -0 is 0, so seq[:-0] is seq[:0], the empty slice)
SliceUpToMinus(s, p) ==
    IF p = 0 THEN <<>>
    ELSE IF p >= Len(s) THEN <<>> ELSE SubSeq(s, 1, Len(s) - p)

\* seq[-p:] (seq[-0:] is seq[0:], the whole sequence)
SliceFromMinus(s, p) ==
    IF p = 0 THEN s
    ELSE IF p >= Len(s) THEN s ELSE SubSeq(s, Len(s) - p + 1, Len(s))

\* d[k] = v
DictSet(d, k, v) == [x \in DOMAIN d \cup {k} |-> IF x = k THEN v ELSE d[x]]

\* insertion order of a dict's keys after d[k] = v
KeysAfterSet(keys, k) ==
    IF \E n \in 1..Len(keys) : keys[n] = k THEN keys ELSE Append(keys, k)

EmptyDict == [x \in {} |-> 0]

----------------------------------------------------------------------------
(* The data directory *)

CsvFiles == {"AEP_hourly.csv", "COMED_hourly.csv"}

DirListing ==
    <<"AEP_hourly.csv", "est_hourly.paruqet", "COMED_hourly.csv", "pjm_hourly_est.csv">>

\* file[-4:]
Last4(name) ==
    IF name = "est_hourly.paruqet" THEN "uqet" ELSE ".csv"

\* the test of the skip at the head of the loop body
IsSkipped(name) == Last4(name) # ".csv" \/ name = "pjm_hourly_est.csv"

\* hour of the first record of a file, counted from 2005-01-01 00:00
StartHour(f) == IF f = "AEP_hourly.csv" THEN 22 ELSE 5

\* consumption recorded at hour k
Load(f, k, seed) ==
    IF f = "AEP_hourly.csv" THEN (k * k + seed) % 5 ELSE 6 + 2 * ((k + seed) % 3)

\* a file of T hourly records, stored oldest first or newest first
MakeCsv(f, T, seed, newestFirst) ==
    [r \in 1..T |->
        LET k == StartHour(f) + (IF newestFirst THEN T - r ELSE r - 1)
        IN  [Datetime |-> k, MW |-> Load(f, k, seed)]]

----------------------------------------------------------------------------
(* Calendar features and scaling *)

Hour(k) == k % 24

\* pandas dayofweek: Monday is 0; 2005-01-01 was a Saturday
DayOfWeek(k) == (5 + (k \div 24)) % 7

DayOfYear(k) == ((k \div 24) % 365) + 1

MonthEnds == <<31, 59, 90, 120, 151, 181, 212, 243, 273, 304, 334, 365>>

Month(k) == CHOOSE m \in 1..12 :
    /\ DayOfYear(k) <= MonthEnds[m]
    /\ \A n \in 1..(m - 1) : DayOfYear(k) > MonthEnds[n]

\* the columns of df after the Datetime column is dropped
NumColumns == 5

FeatureRow(rec) ==
    <<rec.MW, Hour(rec.Datetime), DayOfWeek(rec.Datetime), Month(rec.Datetime),
      DayOfYear(rec.Datetime)>>

\* df.sort_values("Datetime"): insertion sort, ascending
RECURSIVE InsertByDatetime(_, _)
InsertByDatetime(rec, s) ==
    IF s = <<>> THEN <<rec>>
    ELSE IF rec.Datetime < s[1].Datetime THEN <<rec>> \o s
    ELSE <<s[1]>> \o InsertByDatetime(rec, Tail(s))

RECURSIVE SortByDatetime(_)
SortByDatetime(s) ==
    IF s = <<>> THEN <<>>
    ELSE InsertByDatetime(s[1], SortByDatetime(Tail(s)))

SetMin(S) == CHOOSE m \in S : \A x \in S : m <= x

SetMax(S) == CHOOSE m \in S : \A x \in S : x <= m

\* MinMaxScaler().fit(column): the fitted object; owner names the file whose
\* column it was fitted on (the object's identity)
FitScaler(column, owner) ==
    LET vals == {column[r] : r \in 1..Len(column)}
    IN  [data_min |-> SetMin(vals), data_max |-> SetMax(vals), owner |-> owner]

\* a zero range is replaced by 1, as the library does
ScalerRange(s) == IF s.data_max = s.data_min THEN 1 ELSE s.data_max - s.data_min

Transform(s, x) == FNorm(x - s.data_min, ScalerRange(s))

InverseTransform(s, v) == FAdd(FMul(v, F(ScalerRange(s))), F(s.data_min))

Column(rows, c) == [r \in 1..Len(rows) |-> rows[r][c]]

\* sc.fit_transform(df.values): every column scaled by its own minimum and range
FitTransform(rows) ==
    [r \in 1..Len(rows) |->
        [c \in 1..NumColumns |-> Transform(FitScaler(Column(rows, c), "sc"), rows[r][c])]]

\* df after the feature columns are added, sorted by Datetime, Datetime dropped
DataFrame(f) ==
    LET sorted == SortByDatetime(csv[f])
    IN  [r \in 1..Len(sorted) |-> FeatureRow(sorted[r])]

----------------------------------------------------------------------------
(* Initial values *)

\* EPOCHS=5 in the signature of train
DefaultEpochs == 5

Configs ==
    [lookback : 1..MaxLookback, batch_size : 1..MaxBatch, EPOCHS : {DefaultEpochs}]

CsvChoices ==
    {[f \in CsvFiles |->
        MakeCsv(f, IF f = "AEP_hourly.csv" THEN Ta ELSE Tb, seed, newestFirst)] :
        Ta \in 0..MaxRows, Tb \in 0..MaxRows, seed \in 0..MaxSeed,
        newestFirst \in BOOLEAN}

NoModel == [id |-> 0, type |-> "none", hidden_dim |-> 0, n_layers |-> 0,
            steps |-> 0, training |-> FALSE]

NoLoader == [n |-> 0, batch_size |-> 0, drop_last |-> FALSE, shuffle |-> FALSE]

NoStats == [zero_grad |-> 0, forward |-> 0, loss |-> 0, backward |-> 0, step |-> 0]

NoFwd == [epoch |-> 0, counter |-> 0, h_in |-> <<>>, h_prev |-> <<>>, x_batch |-> 0]

\* the kernel before any cell has run: the lists and dicts the preprocessing
\* cell creates are given their first values here, every other name is unset
InitPrepVars ==
    /\ ii = 1 /\ file = "" /\ data = <<>> /\ inputs = <<>> /\ labels = <<>>
    /\ i = 0 /\ lookback = 0
    /\ label_scalers = EmptyDict
    /\ train_x = <<>> /\ train_y = <<>>
    /\ test_x = EmptyDict /\ test_y = EmptyDict /\ test_keys = <<>>

InitLoadVars == batch_size = 0 /\ train_loader = NoLoader

InitTrainVars ==
    /\ model_type = "" /\ EPOCHS = 0 /\ model = NoModel
    /\ epoch = 0 /\ counter = 0 /\ h = <<>> /\ batches_left = <<>>
    /\ stats = NoStats /\ printed = <<>> /\ fwd = NoFwd /\ ret = NoModel
    /\ n_models = 0

InitTopVars == gru_model = NoModel /\ lstm_model = NoModel

InitEvalVars ==
    /\ ev_model = NoModel /\ ev_k = 0 /\ outputs = <<>> /\ targets = <<>>
    /\ sMAPE = F(0) /\ sm_i = 0 /\ ev_log = <<>> /\ ev_ret = FALSE

----------------------------------------------------------------------------
(* Exceptions *)

Raise(name) == pc' = "raised" /\ exc' = name

----------------------------------------------------------------------------
(* The preprocessing cell *)

\* data[k-lookback:k] for the 0-based k of the loop
WindowSlice_shifted(d, k, L) == SubSeq(d, k - L + 2, k + 1)

WindowSlice(d, k, L) == SubSeq(d, k - L + 1, k)

\* data[k,0]
LabelAt(d, k) == d[k + 1][1]

\* int(0.1*n); the product is never below the exact tenth, so this is n \div 10
TestPortion_ceil(n) == (n + 9) \div 10

TestPortion(n) == n \div 10

ZeroWindow(L) == [r \in 1..L |-> [c \in 1..NumColumns |-> F(0)]]

\* for ii, file in enumerate(os.listdir(data_dir)): a file that is skipped
PrepSkip ==
    /\ pc = "prep_loop"
    /\ ii <= Len(listing)
    /\ IsSkipped(listing[ii])
    /\ file' = listing[ii]
    /\ ii' = ii + 1
    /\ UNCHANGED <<inputVars, pc, cell, bound, exc, data, inputs, labels, i,
                   lookback, label_scalers, train_x, train_y, test_x, test_y,
                   test_keys, loadVars, trainVars, topVars, evalVars>>

\* a file that is read: read_csv, the calendar columns, the sort, the two
\* scalers, label_scalers[file] = label_sc
PrepScale ==
    /\ pc = "prep_loop"
    /\ ii <= Len(listing)
    /\ ~IsSkipped(listing[ii])
    /\ file' = listing[ii]
    /\ ii' = ii + 1
    /\ IF Len(csv[listing[ii]]) = 0
       THEN \* the scaler refuses an array with no rows
            /\ Raise("ValueError")
            /\ UNCHANGED <<data, label_scalers>>
       ELSE /\ data' = FitTransform(DataFrame(listing[ii]))
            /\ label_scalers' =
                 DictSet(label_scalers, listing[ii],
                         FitScaler(Column(DataFrame(listing[ii]), 1), listing[ii]))
            /\ pc' = "prep_alloc"
            /\ exc' = exc
    /\ UNCHANGED <<inputVars, cell, bound, inputs, labels, i, lookback, train_x,
                   train_y, test_x, test_y, test_keys, loadVars, trainVars,
                   topVars, evalVars>>

\* lookback = ...; inputs = np.zeros(...); labels = np.zeros(...)
PrepAlloc ==
    /\ pc = "prep_alloc"
    /\ lookback' = cfg.lookback
    /\ IF Len(data) - cfg.lookback < 0
       THEN \* np.zeros: negative dimensions are not allowed
            /\ Raise("ValueError")
            /\ UNCHANGED <<inputs, labels, i>>
       ELSE /\ inputs' = [w \in 1..(Len(data) - cfg.lookback) |-> ZeroWindow(cfg.lookback)]
            /\ labels' = [w \in 1..(Len(data) - cfg.lookback) |-> F(0)]
            /\ i' = cfg.lookback
            /\ pc' = "prep_window"
            /\ exc' = exc
    /\ UNCHANGED <<inputVars, cell, bound, ii, file, data, label_scalers, train_x,
                   train_y, test_x, test_y, test_keys, loadVars, trainVars,
                   topVars, evalVars>>

\* one pass of: for i in range(lookback, len(data))
PrepWindow ==
    /\ pc = "prep_window"
    /\ i < Len(data)
    /\ inputs' = [inputs EXCEPT ![i - lookback + 1] = WindowSlice(data, i, lookback)]
    /\ labels' = [labels EXCEPT ![i - lookback + 1] = LabelAt(data, i)]
    /\ i' = i + 1
    /\ UNCHANGED <<inputVars, ctlVars, ii, file, data, lookback, label_scalers,
                   train_x, train_y, test_x, test_y, test_keys, loadVars,
                   trainVars, topVars, evalVars>>

\* after the loop: the reshapes, test_portion, the training pool, test_x[file]
PrepSplit ==
    /\ pc = "prep_window"
    /\ i >= Len(data)
    /\ LET test_portion == TestPortion(Len(inputs))
       IN  /\ train_x' = train_x \o SliceUpToMinus(inputs, test_portion)
           /\ train_y' = (IF Len(train_x) = 0 THEN <<>> ELSE train_y)
                          \o SliceUpToMinus(labels, test_portion)
           /\ test_x' = DictSet(test_x, file, SliceFromMinus(inputs, test_portion))
           /\ test_y' = DictSet(test_y, file, SliceFromMinus(labels, test_portion))
    /\ test_keys' = KeysAfterSet(test_keys, file)
    /\ bound' = bound \cup {"train_x_array", "train_y"}
    /\ pc' = "prep_loop"
    /\ UNCHANGED <<inputVars, cell, exc, ii, file, data, inputs, labels, i,
                   lookback, label_scalers, loadVars, trainVars, topVars, evalVars>>

\* the listing is exhausted: the cell is done
PrepDone ==
    /\ pc = "prep_loop"
    /\ ii > Len(listing)
    /\ pc' = "cell_done"
    /\ UNCHANGED <<inputVars, cell, bound, exc, prepVars, loadVars, trainVars,
                   topVars, evalVars>>

NextPrep == PrepSkip \/ PrepScale \/ PrepAlloc \/ PrepWindow \/ PrepSplit \/ PrepDone

InitPrep ==
    /\ cfg \in Configs
    /\ listing = DirListing
    /\ csv \in CsvChoices
    /\ pc = "prep_loop" /\ cell = "preprocess" /\ bound = {} /\ exc = "none"
    /\ hidden_dim = 0
    /\ InitPrepVars /\ InitLoadVars /\ InitTrainVars /\ InitTopVars /\ InitEvalVars

SpecPrep == InitPrep /\ [][NextPrep]_vars

----------------------------------------------------------------------------
(* What the claims about preprocessing expect, stated from the csv files *)

Records(f) == {csv[f][r] : r \in 1..Len(csv[f])}

\* the record of f with exactly r-1 earlier records
RecordAtRank(f, r) ==
    CHOOSE rec \in Records(f) :
        Cardinality({x \in Records(f) : x.Datetime < rec.Datetime}) = r - 1

ColumnValues(f, c) == {FeatureRow(rec)[c] : rec \in Records(f)}

\* row r (1-based, in time order) of f, every column min-max scaled over f
ExpectedRow(f, r) ==
    [c \in 1..NumColumns |->
        LET lo == SetMin(ColumnValues(f, c))
            hi == SetMax(ColumnValues(f, c))
        IN  FNorm(FeatureRow(RecordAtRank(f, r))[c] - lo,
                  IF hi = lo THEN 1 ELSE hi - lo)]

\* window w (0-based) of f and its label
ExpectedWindow(f, w) == [j \in 1..cfg.lookback |-> ExpectedRow(f, w + j)]

ExpectedLabel(f, w) == ExpectedRow(f, w + cfg.lookback + 1)[1]

WindowCount(f) == Len(csv[f]) - cfg.lookback

\* windows first..last (0-based) of f, in order
ExpectedWindows(f, first, last) ==
    [n \in 1..(last - first + 1) |-> ExpectedWindow(f, first + n - 1)]

ExpectedLabels(f, first, last) ==
    [n \in 1..(last - first + 1) |-> ExpectedLabel(f, first + n - 1)]

\* the training pool when file f contributes its first cnt[f] windows
RECURSIVE ExpectedPoolX(_, _)
ExpectedPoolX(keys, cnt) ==
    IF keys = <<>> THEN <<>>
    ELSE ExpectedWindows(keys[1], 0, cnt[keys[1]] - 1) \o ExpectedPoolX(Tail(keys), cnt)

RECURSIVE ExpectedPoolY(_, _)
ExpectedPoolY(keys, cnt) ==
    IF keys = <<>> THEN <<>>
    ELSE ExpectedLabels(keys[1], 0, cnt[keys[1]] - 1) \o ExpectedPoolY(Tail(keys), cnt)

\* the split in which file f holds out its last held[f] windows
SplitIs(held) ==
    LET cnt == [f \in DOMAIN test_x |-> WindowCount(f) - held[f]]
    IN  /\ \A f \in DOMAIN test_x :
              /\ test_x[f] = ExpectedWindows(f, cnt[f], WindowCount(f) - 1)
              /\ test_y[f] = ExpectedLabels(f, cnt[f], WindowCount(f) - 1)
        /\ train_x = ExpectedPoolX(test_keys, cnt)
        /\ (test_keys # <<>> => train_y = ExpectedPoolY(test_keys, cnt))

LoopFinished == pc = "prep_window" /\ i >= Len(data)

\* C1: when the windowing loop of a file with T > L rows has finished there
\* are exactly T-L windows and T-L labels, window w holds the scaled rows
\* w..w+L-1 of that file in time order and label w is column 0 of row w+L.
C1_Windowing ==
    (LoopFinished /\ Len(csv[file]) > cfg.lookback) =>
        /\ Len(inputs) = WindowCount(file)
        /\ Len(labels) = WindowCount(file)
        /\ \A w \in 0..(WindowCount(file) - 1) :
              /\ inputs[w + 1] = ExpectedWindow(file, w)
              /\ labels[w + 1] = ExpectedLabel(file, w)

\* a file stored newest first, with several windows, has been windowed
C1_Witness ==
    /\ LoopFinished
    /\ file = "COMED_hourly.csv"
    /\ WindowCount(file) >= 3
    /\ csv[file][1].Datetime > csv[file][2].Datetime

\* no file is being processed: every split made so far is complete
BetweenFiles == pc = "prep_loop" \/ pc = "cell_done"

CeilTenth(n) == (n + 9) \div 10

C6_ShortFileRejected ==
    /\ \A f \in DOMAIN test_x : Len(csv[f]) > cfg.lookback
    /\ (pc = "prep_window" => Len(inputs) >= 1)

----------------------------------------------------------------------------
(* The DataLoader cell *)

\* len(train_loader): with drop_last the incomplete last batch is not counted
NumBatches(loader) ==
    IF loader.drop_last THEN loader.n \div loader.batch_size
    ELSE (loader.n + loader.batch_size - 1) \div loader.batch_size

\* the sizes of the batches one pass over the loader yields (the shuffled
\* contents of a batch are not modelled)
LoaderBatches_keep_last(loader) ==
    [b \in 1..((loader.n + loader.batch_size - 1) \div loader.batch_size) |->
        IF b * loader.batch_size <= loader.n THEN loader.batch_size
        ELSE loader.n - (b - 1) * loader.batch_size]

LoaderBatches(loader) ==
    [b \in 1..NumBatches(loader) |->
        IF b * loader.batch_size <= loader.n THEN loader.batch_size
        ELSE loader.n - (b - 1) * loader.batch_size]

CellEnded == pc = "cell_done" \/ pc = "raised"

\* batch_size = ...; train_data = TensorDataset(...); train_loader = DataLoader(...)
CellLoader ==
    /\ CellEnded /\ cell = "preprocess"
    /\ cell' = "loader"
    /\ batch_size' = cfg.batch_size
    /\ IF "train_x_array" \notin bound
       THEN \* torch.from_numpy of the list train_x still is
            /\ Raise("TypeError")
            /\ UNCHANGED <<train_loader, bound>>
       ELSE /\ train_loader' = [n |-> Len(train_x), batch_size |-> cfg.batch_size,
                                drop_last |-> TRUE, shuffle |-> TRUE]
            /\ bound' = bound \cup {"train_loader"}
            /\ pc' = "cell_done"
            /\ exc' = "none"
    /\ UNCHANGED <<inputVars, prepVars, trainVars, topVars, evalVars>>

\* a shuffling loader over no samples: the library's random sampler refuses
\* it in some releases and accepts it in others
CellLoaderRefused ==
    /\ CellEnded /\ cell = "preprocess"
    /\ "train_x_array" \in bound
    /\ Len(train_x) = 0
    /\ cell' = "loader"
    /\ batch_size' = cfg.batch_size
    /\ Raise("ValueError")
    /\ UNCHANGED <<inputVars, bound, prepVars, train_loader, trainVars, topVars,
                   evalVars>>

----------------------------------------------------------------------------
(* The models *)

NumLayers == 2

LogEvery == 200

NoGrad == <<0, 0>>

Zeros == <<0, 0, 0>>

\* weight.new(n_layers, batch_size, hidden_dim).zero_()
ZeroTensor(m, b) ==
    [val |-> Zeros, grad_fn |-> NoGrad, shape |-> <<m.n_layers, b, m.hidden_dim>>]

\* GRUNet.init_hidden / LSTMNet.init_hidden: one tensor, or a pair of them
init_hidden(m, b) ==
    IF m.type = "GRU" THEN <<ZeroTensor(m, b)>>
    ELSE <<ZeroTensor(m, b), ZeroTensor(m, b)>>

\* h = h.data / h = tuple([e.data for e in h]): the same numbers, no history
Detach_kept_history(mt, hs) == hs

Detach(mt, hs) ==
    IF mt = "GRU" THEN <<[hs[1] EXCEPT !.grad_fn = NoGrad]>>
    ELSE [e \in 1..Len(hs) |-> [hs[e] EXCEPT !.grad_fn = NoGrad]]

\* the recurrent layer accepts a state whose batch dimension is the input's
ForwardAccepts(hs, xb) == \A e \in 1..Len(hs) : hs[e].shape[2] = xb

\* the state a forward pass returns: new numbers, tied to this pass's graph
ForwardState(m, hs, xb, tag) ==
    [e \in 1..Len(hs) |->
        [val |-> <<e, tag[1], tag[2]>>, grad_fn |-> tag,
         shape |-> <<m.n_layers, xb, m.hidden_dim>>]]

----------------------------------------------------------------------------
(* train *)

\* train up to the epoch loop: the probe batch, the model, the optimizer
TrainSetup ==
    /\ pc = "train_setup"
    /\ stats' = NoStats /\ printed' = <<>> /\ fwd' = NoFwd
    /\ IF NumBatches(train_loader) = 0
       THEN \* next(iter(train_loader)) on a loader that yields nothing
            /\ Raise("StopIteration")
            /\ UNCHANGED <<model, n_models, epoch>>
       ELSE IF "hidden_dim" \notin bound
       THEN \* hidden_dim is neither a parameter nor assigned by any cell
            /\ Raise("NameError")
            /\ UNCHANGED <<model, n_models, epoch>>
       ELSE /\ model' = [id |-> n_models + 1, type |-> model_type,
                         hidden_dim |-> hidden_dim, n_layers |-> NumLayers,
                         steps |-> 0, training |-> TRUE]
            /\ n_models' = n_models + 1
            /\ epoch' = 1
            /\ pc' = "train_epoch"
            /\ exc' = exc
    /\ UNCHANGED <<inputVars, cell, bound, prepVars, loadVars, hidden_dim,
                   model_type, EPOCHS, counter, h, batches_left, ret, topVars,
                   evalVars>>

\* for epoch in range(1, EPOCHS+1): h = model.init_hidden(batch_size); ...
EpochBegin ==
    /\ pc = "train_epoch"
    /\ epoch <= EPOCHS
    /\ h' = init_hidden(model, batch_size)
    /\ counter' = 0
    /\ batches_left' = LoaderBatches(train_loader)
    /\ pc' = "train_batch"
    /\ UNCHANGED <<inputVars, cell, bound, exc, prepVars, loadVars, hidden_dim,
                   model_type, EPOCHS, model, epoch, stats, printed, fwd, ret,
                   n_models, topVars, evalVars>>

\* one pass of: for x, label in train_loader
BatchStep ==
    /\ pc = "train_batch"
    /\ batches_left # <<>>
    /\ counter' = counter + 1
    /\ batches_left' = Tail(batches_left)
    /\ LET xb == Head(batches_left)
           hd == Detach(model_type, h)
       IN  /\ fwd' = [epoch |-> epoch, counter |-> counter + 1, h_in |-> hd,
                      h_prev |-> h, x_batch |-> xb]
           /\ IF ~ForwardAccepts(hd, xb)
              THEN /\ Raise("RuntimeError")
                   /\ stats' = [stats EXCEPT !.zero_grad = @ + 1, !.forward = @ + 1]
                   /\ UNCHANGED <<h, model, printed>>
              ELSE /\ h' = ForwardState(model, hd, xb, <<epoch, counter + 1>>)
                   /\ stats' = [stats EXCEPT !.zero_grad = @ + 1, !.forward = @ + 1,
                                             !.loss = @ + 1, !.backward = @ + 1,
                                             !.step = @ + 1]
                   /\ model' = [model EXCEPT !.steps = @ + 1]
                   /\ printed' = IF (counter + 1) % LogEvery = 0
                                 THEN Append(printed, <<epoch, counter + 1>>)
                                 ELSE printed
                   /\ UNCHANGED <<pc, exc>>
    /\ UNCHANGED <<inputVars, cell, bound, prepVars, loadVars, hidden_dim,
                   model_type, EPOCHS, epoch, ret, n_models, topVars, evalVars>>

\* the loader is exhausted: the two lines printed at the end of an epoch
EpochEnd ==
    /\ pc = "train_batch"
    /\ batches_left = <<>>
    /\ epoch' = epoch + 1
    /\ pc' = "train_epoch"
    /\ UNCHANGED <<inputVars, cell, bound, exc, prepVars, loadVars, hidden_dim,
                   model_type, EPOCHS, model, counter, h, batches_left, stats,
                   printed, fwd, ret, n_models, topVars, evalVars>>

\* return model
TrainReturn ==
    /\ pc = "train_epoch"
    /\ epoch > EPOCHS
    /\ ret' = model
    /\ pc' = "train_returned"
    /\ UNCHANGED <<inputVars, cell, bound, exc, prepVars, loadVars, hidden_dim,
                   model_type, EPOCHS, model, epoch, counter, h, batches_left,
                   stats, printed, fwd, n_models, topVars, evalVars>>

NextTrain == TrainSetup \/ EpochBegin \/ BatchStep \/ EpochEnd \/ TrainReturn

\* numbers of batches a loader given to train may yield
BatchCounts == {0, 1, 2, 2 * LogEvery + 1}

\* the names a kernel holds when hidden_dim is unset (0) or set to a width
KernelNames(hd) == IF hd = 0 THEN {} ELSE {"hidden_dim"}

\* train called on its own: any loader, any EPOCHS, either variant
InitTrain ==
    /\ cfg \in [lookback : {1}, batch_size : 1..MaxBatch, EPOCHS : 0..MaxEpochs]
    /\ listing = <<>> /\ csv = EmptyDict
    /\ pc = "train_setup" /\ cell = "train" /\ exc = "none"
    /\ hidden_dim \in 0..MaxHidden
    /\ bound = KernelNames(hidden_dim) \cup {"train_loader"}
    /\ InitPrepVars
    /\ batch_size = cfg.batch_size
    /\ \E N \in BatchCounts, r \in {0, cfg.batch_size - 1} :
          train_loader = [n |-> N * cfg.batch_size + r, batch_size |-> cfg.batch_size,
                          drop_last |-> TRUE, shuffle |-> TRUE]
    /\ model_type \in {"GRU", "LSTM"} /\ EPOCHS = cfg.EPOCHS /\ model = NoModel
    /\ epoch = 0 /\ counter = 0 /\ h = <<>> /\ batches_left = <<>>
    /\ stats = NoStats /\ printed = <<>> /\ fwd = NoFwd /\ ret = NoModel
    /\ n_models = 0
    /\ InitTopVars /\ InitEvalVars

SpecTrain == InitTrain /\ [][NextTrain]_vars

\* C5: train ends by returning the model after EPOCHS passes over the N
\* batches, with one loss, one backward pass and one optimizer step per batch,
\* and a progress line exactly at the in-epoch counters that are multiples of 200.
C5_TrainCompletes ==
    (pc = "train_returned" \/ pc = "raised") =>
        LET N == NumBatches(train_loader)
        IN  /\ pc = "train_returned"
            /\ ret = model
            /\ stats.loss = EPOCHS * N
            /\ stats.backward = EPOCHS * N
            /\ stats.step = EPOCHS * N
            /\ Len(printed) = EPOCHS * (N \div LogEvery)
            /\ \A n \in 1..Len(printed) : printed[n][2] % LogEvery = 0

\* C8: the state given to a forward pass of train carries no gradient history;
\* it holds zeros for the first batch of an epoch and otherwise the numbers of
\* the state the previous batch of the same epoch returned; every epoch starts
\* from a zero state.
C8_HiddenDetached ==
    /\ (pc = "train_batch" /\ counter = 0) =>
          \A e \in 1..Len(h) : h[e].val = Zeros /\ h[e].grad_fn = NoGrad
    /\ fwd.counter >= 1 =>
          /\ Len(fwd.h_in) = (IF model_type = "GRU" THEN 1 ELSE 2)
          /\ \A e \in 1..Len(fwd.h_in) :
                /\ fwd.h_in[e].grad_fn = NoGrad
                /\ fwd.h_in[e].val = (IF fwd.counter = 1 THEN Zeros
                                      ELSE <<e, fwd.epoch, fwd.counter - 1>>)

\* the second batch of a second epoch has gone through the LSTM variant
C8_Witness ==
    /\ model_type = "LSTM"
    /\ fwd.epoch = 2 /\ fwd.counter = 2
    /\ fwd.h_prev[2].grad_fn = <<2, 1>>
    /\ pc = "train_batch"

----------------------------------------------------------------------------
(* evaluate *)

\* label_scalers[i]
ScalerFor_any(scalers, f) == scalers[CHOOSE g \in DOMAIN scalers : g # f \/ DOMAIN scalers = {f}]

ScalerFor(scalers, f) == scalers[f]

\* what the network may answer for a window: the scaled minimum, the scaled
\* maximum, or the consumption of the window's last row
Predictors == {"zero", "one", "last"}

Predict(p, window) ==
    IF p = "zero" THEN F(0)
    ELSE IF p = "one" THEN F(1)
    ELSE window[Len(window)][1]

\* one pass of: for i in test_x.keys()
EvalFile ==
    /\ pc = "eval_file"
    /\ ev_k <= Len(test_keys)
    /\ LET f   == test_keys[ev_k]
           inp == test_x[f]
           labs == test_y[f]
           hh  == init_hidden(ev_model, Len(inp))
       IN  \E p \in Predictors :
             LET out == [k \in 1..Len(inp) |-> Predict(p, inp[k])]
             IN  /\ outputs' = Append(outputs,
                        [k \in 1..Len(out) |->
                            InverseTransform(ScalerFor(label_scalers, f), out[k])])
                 /\ targets' = Append(targets,
                        [k \in 1..Len(labs) |->
                            InverseTransform(ScalerFor(label_scalers, f), labs[k])])
                 /\ ev_log' = Append(ev_log,
                        [file |-> f, n |-> Len(inp), h_in |-> hh,
                         out_scaler |-> ScalerFor(label_scalers, f),
                         tgt_scaler |-> ScalerFor(label_scalers, f)])
    /\ ev_k' = ev_k + 1
    /\ UNCHANGED <<inputVars, ctlVars, prepVars, loadVars, trainVars, topVars,
                   ev_model, sMAPE, sm_i, ev_ret>>

\* a file with no test window: some releases of the library refuse a batch of
\* no sequences, others pass it through (EvalFile)
EvalFileRefused ==
    /\ pc = "eval_file"
    /\ ev_k <= Len(test_keys)
    /\ Len(test_x[test_keys[ev_k]]) = 0
    /\ Raise("RuntimeError")
    /\ UNCHANGED <<inputVars, cell, bound, prepVars, loadVars, trainVars, topVars,
                   evalVars>>

\* the loop over the files is done: print the time, sMAPE = 0
EvalLoopDone ==
    /\ pc = "eval_file"
    /\ ev_k > Len(test_keys)
    /\ sMAPE' = F(0)
    /\ sm_i' = 1
    /\ pc' = "eval_smape"
    /\ UNCHANGED <<inputVars, cell, bound, exc, prepVars, loadVars, trainVars,
                   topVars, ev_model, ev_k, outputs, targets, ev_log, ev_ret>>

\* abs(outputs[i]-targets[i])/(targets[i]+outputs[i])/2, element by element
ErrorTerms(o, t) ==
    [k \in 1..Len(o) |-> FDiv(FDiv(FAbs(FSub(o[k], t[k])), FAdd(t[k], o[k])), F(2))]

\* one pass of: for i in range(len(outputs)): sMAPE += np.mean(...)/len(outputs)
SmapeStep ==
    /\ pc = "eval_smape"
    /\ sm_i <= Len(outputs)
    /\ sMAPE' = FAdd(sMAPE, FDiv(NpMean(ErrorTerms(outputs[sm_i], targets[sm_i])),
                                 F(Len(outputs))))
    /\ sm_i' = sm_i + 1
    /\ UNCHANGED <<inputVars, ctlVars, prepVars, loadVars, trainVars, topVars,
                   ev_model, ev_k, outputs, targets, ev_log, ev_ret>>

\* print the sMAPE; return outputs, targets, sMAPE
EvalReturn ==
    /\ pc = "eval_smape"
    /\ sm_i > Len(outputs)
    /\ ev_ret' = TRUE
    /\ pc' = "eval_returned"
    /\ UNCHANGED <<inputVars, cell, bound, exc, prepVars, loadVars, trainVars,
                   topVars, ev_model, ev_k, outputs, targets, sMAPE, sm_i, ev_log>>

NextMetric == SmapeStep \/ EvalReturn

\* inverse-scaled predictions and targets the metric is tried on
MetricValues == {F(0), F(100), F(110)}

RECURSIVE SeqsUpTo(_, _)
SeqsUpTo(S, n) ==
    IF n = 0 THEN {<<>>}
    ELSE LET shorter == SeqsUpTo(S, n - 1)
         IN  shorter \cup {Append(q, x) : q \in shorter, x \in S}

\* per-file (prediction, target) arrays of equal length 1..MaxMetricLen
MetricFiles ==
    {pr \in SeqsUpTo(MetricValues, MaxMetricLen) \X SeqsUpTo(MetricValues, MaxMetricLen) :
        Len(pr[1]) = Len(pr[2]) /\ Len(pr[1]) >= 1}

\* the last loop of evaluate on its own, over one or two files
InitMetric ==
    /\ cfg \in [lookback : {1}, batch_size : {1}, EPOCHS : {0}]
    /\ listing = <<>> /\ csv = EmptyDict
    /\ pc = "eval_smape" /\ cell = "evaluate" /\ bound = {} /\ exc = "none"
    /\ hidden_dim = 0
    /\ InitPrepVars /\ InitLoadVars /\ InitTrainVars /\ InitTopVars
    /\ ev_model = NoModel /\ ev_k = 0 /\ ev_log = <<>> /\ ev_ret = FALSE
    /\ \E fs \in SeqsUpTo(MetricFiles, 2) :
          /\ Len(fs) >= 1
          /\ outputs = [k \in 1..Len(fs) |-> fs[k][1]]
          /\ targets = [k \in 1..Len(fs) |-> fs[k][2]]
    /\ sMAPE = F(0) /\ sm_i = 1

SpecMetric == InitMetric /\ [][NextMetric]_vars

\* |prediction - target| / ((target + prediction) / 2), element by element
SymmetricTerms(o, t) ==
    [k \in 1..Len(o) |-> FDiv(FAbs(FSub(o[k], t[k])), FDiv(FAdd(t[k], o[k]), F(2)))]

\* the unweighted average over the files of the per-file mean of terms
RECURSIVE AverageOfMeans(_, _, _)
AverageOfMeans(os, ts, n) ==
    IF os = <<>> THEN F(0)
    ELSE FAdd(FDiv(NpMean(SymmetricTerms(os[1], ts[1])), F(n)),
              AverageOfMeans(Tail(os), Tail(ts), n))

\* C3: the sMAPE evaluate returns is the unweighted average over the files of
\* the per-file mean of |prediction - target| / ((target + prediction) / 2);
\* prediction [110] against target [100] gives 10/105.
C3_SmapeFormula ==
    (pc = "eval_returned" /\ \A k \in 1..Len(outputs) : \A j \in 1..Len(outputs[k]) :
                                 FAdd(outputs[k][j], targets[k][j]) # F(0)) =>
        /\ sMAPE = AverageOfMeans(outputs, targets, Len(outputs))
        /\ (outputs = <<<<F(110)>>>> /\ targets = <<<<F(100)>>>> => sMAPE = <<10, 105>>)

\* C7: whatever the predictions and targets, also when a pair sums to zero,
\* the sMAPE evaluate returns is a finite number.
C7_SmapeFinite ==
    pc = "eval_returned" => IsFinite(sMAPE)

----------------------------------------------------------------------------
(* The train and evaluate cells, run in the notebook's order.  A cell that
   raises leaves the kernel as it is, and the next cell can still be run. *)

\* train(train_loader, lr, model_type=...): the arguments are evaluated and
\* the body entered
CallTrain(mt) ==
    IF "train_loader" \notin bound
    THEN /\ Raise("NameError")
         /\ UNCHANGED <<model_type, EPOCHS>>
    ELSE /\ model_type' = mt
         /\ EPOCHS' = cfg.EPOCHS
         /\ pc' = "train_setup"
         /\ exc' = "none"

\* lr = 0.001; gru_model = train(train_loader, lr, model_type="GRU")
CellTrainGRU ==
    /\ CellEnded /\ cell = "loader"
    /\ cell' = "train_gru"
    /\ CallTrain("GRU")
    /\ UNCHANGED <<inputVars, bound, prepVars, loadVars, hidden_dim, model, epoch,
                   counter, h, batches_left, stats, printed, fwd, ret, n_models,
                   topVars, evalVars>>

\* gru_model = <the model train returned>
CellBindGRU ==
    /\ pc = "train_returned" /\ cell = "train_gru"
    /\ gru_model' = ret
    /\ bound' = bound \cup {"gru_model"}
    /\ pc' = "cell_done"
    /\ UNCHANGED <<inputVars, cell, exc, prepVars, loadVars, trainVars, lstm_model,
                   evalVars>>

\* gru_outputs, targets, gru_sMAPE = evaluate(model, test_x, test_y, label_scalers):
\* model is a local name of train and no cell assigns a global of that name
CellEvalGRU ==
    /\ CellEnded /\ cell = "train_gru"
    /\ cell' = "eval_gru"
    /\ Raise("NameError")
    /\ UNCHANGED <<inputVars, bound, prepVars, loadVars, trainVars, topVars, evalVars>>

\* lstm_model = train(train_loader, lr, model_type="LSTM")
CellTrainLSTM ==
    /\ CellEnded /\ cell = "eval_gru"
    /\ cell' = "train_lstm"
    /\ CallTrain("LSTM")
    /\ UNCHANGED <<inputVars, bound, prepVars, loadVars, hidden_dim, model, epoch,
                   counter, h, batches_left, stats, printed, fwd, ret, n_models,
                   topVars, evalVars>>

\* lstm_model = <the model train returned>
CellBindLSTM ==
    /\ pc = "train_returned" /\ cell = "train_lstm"
    /\ lstm_model' = ret
    /\ bound' = bound \cup {"lstm_model"}
    /\ pc' = "cell_done"
    /\ UNCHANGED <<inputVars, cell, exc, prepVars, loadVars, trainVars, gru_model,
                   evalVars>>

\* lstm_outputs, targets, lstm_sMAPE = evaluate(lstm_model, ...): the call, and
\* evaluate up to its loop over the files (model.eval(), the empty lists)
CellEvalLSTM ==
    /\ CellEnded /\ cell = "train_lstm"
    /\ cell' = "eval_lstm"
    /\ IF "lstm_model" \notin bound
       THEN /\ Raise("NameError")
            /\ UNCHANGED <<ev_model, ev_k, outputs, targets, ev_log>>
       ELSE /\ ev_model' = [lstm_model EXCEPT !.training = FALSE]
            /\ outputs' = <<>>
            /\ targets' = <<>>
            /\ ev_log' = <<>>
            /\ ev_k' = 1
            /\ pc' = "eval_file"
            /\ exc' = "none"
    /\ UNCHANGED <<inputVars, bound, prepVars, loadVars, trainVars, topVars,
                   sMAPE, sm_i, ev_ret>>

\* the three results of evaluate are bound
CellBindEval ==
    /\ pc = "eval_returned" /\ cell = "eval_lstm"
    /\ bound' = bound \cup {"lstm_outputs", "targets", "lstm_sMAPE"}
    /\ pc' = "cell_done"
    /\ UNCHANGED <<inputVars, cell, exc, prepVars, loadVars, trainVars, topVars,
                   evalVars>>

Next ==
    \/ PrepSkip \/ PrepScale \/ PrepAlloc \/ PrepWindow \/ PrepSplit \/ PrepDone
    \/ CellLoader \/ CellLoaderRefused
    \/ CellTrainGRU \/ CellBindGRU \/ CellEvalGRU
    \/ CellTrainLSTM \/ CellBindLSTM \/ CellEvalLSTM \/ CellBindEval
    \/ TrainSetup \/ EpochBegin \/ BatchStep \/ EpochEnd \/ TrainReturn
    \/ EvalFile \/ EvalFileRefused \/ EvalLoopDone \/ SmapeStep \/ EvalReturn

\* row counts of the files of a whole run: none, too few for one window,
\* fewer than ten windows, ten windows or more
RunRowCounts == {0, MaxLookback, MaxRows - 1, MaxRows}

RunCsvChoices ==
    {[f \in CsvFiles |->
        MakeCsv(f, IF f = "AEP_hourly.csv" THEN Ta ELSE Tb, seed, newestFirst)] :
        Ta \in RunRowCounts, Tb \in RunRowCounts, seed \in 0..MaxSeed,
        newestFirst \in BOOLEAN}

\* a kernel about to run the preprocessing cell
Init ==
    /\ cfg \in Configs
    /\ listing = DirListing
    /\ csv \in RunCsvChoices
    /\ pc = "prep_loop" /\ cell = "preprocess" /\ exc = "none"
    /\ hidden_dim \in 0..MaxHidden
    /\ bound = KernelNames(hidden_dim)
    /\ InitPrepVars /\ InitLoadVars /\ InitTrainVars /\ InitTopVars /\ InitEvalVars

Spec == Init /\ [][Next]_vars

----------------------------------------------------------------------------
(* Claims about the whole run *)

\* the label scaler of f, stated from f's consumption column
FittedScaler(f) ==
    [data_min |-> SetMin(ColumnValues(f, 1)), data_max |-> SetMax(ColumnValues(f, 1)),
     owner |-> f]

\* the recorded consumption that test window j (1-based) of f has as its label
HeldOutConsumption(f, j) ==
    RecordAtRank(f, Len(csv[f]) - Len(test_x[f]) + j).MW

\* C4: evaluate inverse-scales the predictions and the targets of every file
\* with the scaler fitted on that file's own consumption column (so that the
\* targets come back as the recorded consumption), and label_scalers holds
\* exactly those scalers throughout.
C4_OwnScaler ==
    /\ label_scalers = [f \in DOMAIN label_scalers |-> FittedScaler(f)]
    /\ \A k \in 1..Len(ev_log) :
          LET f == ev_log[k].file
          IN  /\ ev_log[k].out_scaler = FittedScaler(f)
              /\ ev_log[k].tgt_scaler = FittedScaler(f)
              /\ targets[k] = [j \in 1..Len(test_x[f]) |-> F(HeldOutConsumption(f, j))]

\* two files with different scalers have been evaluated
C4_Witness ==
    /\ pc = "eval_returned"
    /\ Len(ev_log) = 2
    /\ ev_log[1].n >= 1 /\ ev_log[2].n >= 1
    /\ ev_log[1].out_scaler.data_min # ev_log[2].out_scaler.data_min

ZeroState(hs, mt, b) ==
    /\ Len(hs) = (IF mt = "GRU" THEN 1 ELSE 2)
    /\ \A e \in 1..Len(hs) :
          /\ hs[e].val = Zeros
          /\ hs[e].shape = <<NumLayers, b, hidden_dim>>

\* C9: init_hidden(b) is all zeros of shape [n_layers, b, hidden_dim], one
\* tensor for GRU and two for LSTM; in train every batch has batch_size
\* windows and the state passed with it has that batch dimension; in
\* evaluate the state is made for exactly the file's test windows.
C9_HiddenShape ==
    /\ (pc = "train_batch" /\ counter = 0) => ZeroState(h, model_type, batch_size)
    /\ fwd.counter >= 1 =>
          /\ fwd.x_batch = batch_size
          /\ \A e \in 1..Len(fwd.h_in) : fwd.h_in[e].shape[2] = fwd.x_batch
    /\ \A k \in 1..Len(ev_log) :
          /\ ev_log[k].n = Len(test_x[ev_log[k].file])
          /\ ZeroState(ev_log[k].h_in, ev_model.type, ev_log[k].n)

\* both variants have trained over several batches and a file with several
\* test windows has been evaluated
C9_Witness ==
    /\ "gru_model" \in bound /\ gru_model.type = "GRU" /\ gru_model.steps >= 2
    /\ model_type = "LSTM" /\ fwd.counter >= 2
    /\ Len(ev_log) >= 1 /\ ev_log[1].n >= 2
    /\ train_loader.n % batch_size # 0

\* C10: each evaluate cell runs evaluate on the model its train cell returned,
\* and evaluate makes one forward pass per file of the test pool and returns
\* one prediction and one target sequence per file.
C10_EvalOnTrainedModel ==
    /\ (cell = "eval_gru" /\ "gru_model" \in bound) =>
          (pc # "raised" /\ ev_model.id = gru_model.id)
    /\ (cell = "eval_lstm" /\ "lstm_model" \in bound /\ pc # "raised") =>
          ev_model.id = lstm_model.id
    /\ (cell = "eval_lstm" /\ pc = "eval_returned") =>
          /\ Len(outputs) = Len(test_keys)
          /\ Len(targets) = Len(test_keys)
          /\ [k \in 1..Len(ev_log) |-> ev_log[k].file] = test_keys

====
